---- MODULE Spec2Model ----
(***************************************************************************)
(* Model of the tic-tac-toe AI lab (App component): the Outcome Evaluator  *)
(* calculateWinner, the Move Selector findBestMove and the Simulation      *)
(* Driver made of React state, two effects and the timers they schedule.   *)
(*                                                                         *)
(* React semantics assumed: state updates made inside one timer callback   *)
(* or one event handler are batched into one render; after the render the  *)
(* effects whose dependencies changed run (cleanup of the previous run     *)
(* first).  JavaScript is single threaded, so a handler together with the  *)
(* render and the effects it causes is one atomic step.  Timer delays are  *)
(* abstracted: any pending timer may be the next one to fire.  A network   *)
(* call settles at any later step, in any of its outcomes, or never; the   *)
(* code resumed by it is one atomic step as well.                          *)
(***************************************************************************)
EXTENDS Integers, Sequences, FiniteSets, Bags, TLC

(* ---------------------------------------------------------------------- *)
(* Bounds of the model                                                     *)
(* ---------------------------------------------------------------------- *)
\* Math.random() is modelled as rnd / RandomScale for rnd in 0..RandomScale-1
RandomScale == 9
\* games that may terminate in one run of the driver with user input
MaxGames == 3
\* games that may terminate in one run of the driver without user input
MaxBatchGames == 21
\* reset timers that may be pending at the same time
MaxPendingResets == 2
\* speed slider positions above the initial one that the user may select
MaxSpeedSteps == 1
\* calls of fetchHistory that may be awaiting their response at the same time
MaxFetchesInFlight == 2
\* games the history returned by the server may list
MaxHistoryGames == 2

(* ---------------------------------------------------------------------- *)
(* Data                                                                    *)
(* ---------------------------------------------------------------------- *)
Null == "null"
Markers == {"X", "O"}
Cells == 0..8
EmptyBoard == [i \in Cells |-> Null]
AllBoards == [Cells -> {Null, "X", "O"}]

\* the lines table of calculateWinner, in table order
Lines ==
  << <<0, 1, 2>>, <<3, 4, 5>>, <<6, 7, 8>>,
     <<0, 3, 6>>, <<1, 4, 7>>, <<2, 5, 8>>,
     <<0, 4, 8>>, <<2, 4, 6>> >>

\* calculateWinner returning null
NoResult == [winner |-> Null, line |-> <<>>]

\* LineMatches without the comparison of the third cell
LineMatches_TwoCells(squares, line) ==
  /\ squares[line[1]] # Null
  /\ squares[line[1]] = squares[line[2]]

\* the condition of the if inside the for loop of calculateWinner
LineMatches(squares, line) ==
  /\ squares[line[1]] # Null
  /\ squares[line[1]] = squares[line[2]]
  /\ squares[line[1]] = squares[line[3]]

RECURSIVE ScanLines(_, _)
\* the for loop of calculateWinner from table position k on
ScanLines(squares, k) ==
  IF k > Len(Lines) THEN NoResult
  ELSE IF LineMatches(squares, Lines[k])
       THEN [winner |-> squares[Lines[k][1]], line |-> Lines[k]]
       ELSE ScanLines(squares, k + 1)

calculateWinner(squares) == ScanLines(squares, 1)

\* squares.every(square => square !== null)
IsBoardFull(squares) == \A i \in Cells : squares[i] # Null

\* [...currentSquares] with tempSquares[i] = marker
Place(squares, i, marker) == [squares EXCEPT ![i] = marker]

Opponent(player) == IF player = "X" THEN "O" ELSE "X"

RECURSIVE FirstWinningCell(_, _, _)
\* one of the two scan loops of findBestMove, from index i on; 9 when the
\* loop ends without returning
FirstWinningCell(currentSquares, marker, i) ==
  IF i > 8 THEN 9
  ELSE IF /\ currentSquares[i] = Null
          /\ calculateWinner(Place(currentSquares, i, marker)).winner = marker
       THEN i
       ELSE FirstWinningCell(currentSquares, marker, i + 1)

RECURSIVE AvailableFrom(_, _)
\* currentSquares.map(...).filter(...): the empty indices in ascending order
AvailableFrom(currentSquares, i) ==
  IF i > 8 THEN <<>>
  ELSE IF currentSquares[i] = Null
       THEN <<i>> \o AvailableFrom(currentSquares, i + 1)
       ELSE AvailableFrom(currentSquares, i + 1)

availableSquares(currentSquares) == AvailableFrom(currentSquares, 0)

\* RandomIndex scaled by len - 1: the last available cell is never drawn
RandomIndex_SkipLast(rnd, len) == (rnd * (len - 1)) \div RandomScale

\* Math.floor(Math.random() * len) with Math.random() = rnd / RandomScale
RandomIndex(rnd, len) == (rnd * len) \div RandomScale

RandomValues == 0..(RandomScale - 1)

\* findBestMove with the block scan tried before the win scan
findBestMove_BlockFirst(currentSquares, player, rnd) ==
  LET opponent == Opponent(player)
      win      == FirstWinningCell(currentSquares, player, 0)
      block    == FirstWinningCell(currentSquares, opponent, 0)
      avail    == availableSquares(currentSquares)
  IN  IF block # 9 THEN block
      ELSE IF win # 9 THEN win
      ELSE IF Len(avail) > 0 THEN avail[RandomIndex(rnd, Len(avail)) + 1]
      ELSE -1

\* findBestMove without the win scan
findBestMove_NoWin(currentSquares, player, rnd) ==
  LET block    == FirstWinningCell(currentSquares, Opponent(player), 0)
      avail    == availableSquares(currentSquares)
  IN  IF block # 9 THEN block
      ELSE IF Len(avail) > 0 THEN avail[RandomIndex(rnd, Len(avail)) + 1]
      ELSE -1

\* findBestMove without the block scan
findBestMove_NoBlock(currentSquares, player, rnd) ==
  LET win      == FirstWinningCell(currentSquares, player, 0)
      avail    == availableSquares(currentSquares)
  IN  IF win # 9 THEN win
      ELSE IF Len(avail) > 0 THEN avail[RandomIndex(rnd, Len(avail)) + 1]
      ELSE -1

\* findBestMove without the random fallback
findBestMove_NoFallback(currentSquares, player, rnd) ==
  LET opponent == Opponent(player)
      win      == FirstWinningCell(currentSquares, player, 0)
      block    == FirstWinningCell(currentSquares, opponent, 0)
  IN  IF win # 9 THEN win
      ELSE IF block # 9 THEN block
      ELSE -1

findBestMove(currentSquares, player, rnd) ==
  LET opponent == Opponent(player)
      win      == FirstWinningCell(currentSquares, player, 0)
      block    == FirstWinningCell(currentSquares, opponent, 0)
      avail    == availableSquares(currentSquares)
  IN  IF win # 9 THEN win
      ELSE IF block # 9 THEN block
      ELSE IF Len(avail) > 0 THEN avail[RandomIndex(rnd, Len(avail)) + 1]
      ELSE -1

(* ---------------------------------------------------------------------- *)
(* State                                                                   *)
(* ---------------------------------------------------------------------- *)
VARIABLES
  squares,           \* useState(Array(9).fill(null))
  isXNext,           \* useState(true)
  stats,             \* useState({ xWins: 0, oWins: 0, draws: 0 })
  winningLine,       \* useState(null); <<>> is null
  moveHistory,       \* useState([])
  gameResultsBatch,  \* useState([])
  isPlaying,         \* useState(true)
  speed,             \* useState(250)
  moveTimer,         \* the pending move tick: <<>> or <<closure>>
  resetTimers,       \* the pending terminal-reset timeouts: a bag of closures
  sink,              \* the batches handed to saveThingsToDatabase, in order
  saveOutcome,       \* per call of saveThingsToDatabase: how its promise settled
  gameHistory,       \* useState([]): the displayed history list
  fetchesInFlight,   \* calls of fetchHistory awaiting loadThingsFromDatabase
  recordLog,         \* history: every GameRecord created, in creation order
  gamesTerminated,   \* history: number of times the board became terminal
  argSquares,        \* harness of the pure functions: the board passed
  argPlayer,         \* harness: the player passed
  retOutcome,        \* harness: <<>> or <<result of calculateWinner>>
  retMove            \* harness: <<>> or <<result of findBestMove>>

driverVars ==
  << squares, isXNext, stats, winningLine, moveHistory, gameResultsBatch,
     isPlaying, speed, moveTimer, resetTimers, sink, saveOutcome,
     gameHistory, fetchesInFlight, recordLog, gamesTerminated >>

\* the state of the history panel, which no effect of the simulation touches
fetchVars == << gameHistory, fetchesInFlight >>

harnessVars == << argSquares, argPlayer, retOutcome, retMove >>

vars == << driverVars, harnessVars >>

\* the batch length at which the updater of setGameResultsBatch flushes
FlushThreshold == 10

\* the value of the speed slider after construction, its step and its range
InitialSpeed == 250
SpeedStep == 50
MinSpeed == 50
MaxSpeed == 1000

\* the slider positions the modelled user selects
SpeedValues ==
  { v \in MinSpeed..MaxSpeed :
      /\ v % SpeedStep = 0
      /\ v >= InitialSpeed
      /\ v <= InitialSpeed + MaxSpeedSteps * SpeedStep }

\* IsTerminal looking at the full board only
IsTerminal_FullOnly(sq) == IsBoardFull(sq)

\* winner || isBoardFull, as both effects compute it
IsTerminal(sq) == calculateWinner(sq).winner # Null \/ IsBoardFull(sq)

DriverInit ==
  /\ squares = EmptyBoard
  /\ isXNext = TRUE
  /\ stats = [xWins |-> 0, oWins |-> 0, draws |-> 0]
  /\ winningLine = <<>>
  /\ moveHistory = <<>>
  /\ gameResultsBatch = <<>>
  /\ isPlaying = TRUE
  /\ speed = InitialSpeed
     \* the effects of the first render: the board is empty and isPlaying is
     \* true, so the main effect schedules the first move tick
  /\ moveTimer = << [squares |-> EmptyBoard, isXNext |-> TRUE] >>
  /\ resetTimers = EmptyBag
  /\ sink = <<>>
  /\ saveOutcome = <<>>
  /\ gameHistory = <<>>
     \* the polling effect calls fetchHistory on mount
  /\ fetchesInFlight = 1
  /\ recordLog = <<>>
  /\ gamesTerminated = 0

HarnessIdle ==
  /\ argSquares = EmptyBoard
  /\ argPlayer = "X"
  /\ retOutcome = <<>>
  /\ retMove = <<>>

Init == DriverInit /\ HarnessIdle

(* ---------------------------------------------------------------------- *)
(* The two effects, as functions of the state of the render they follow    *)
(* ---------------------------------------------------------------------- *)
OutcomeLabel(winner) ==
  IF winner = "X" THEN "X Wins" ELSE IF winner = "O" THEN "O Wins" ELSE "Draw"

\* ResultData built from the move history of the render before
ResultData_StaleMoves(sq, hist) ==
  [ id              |-> Len(recordLog) + 1,
    outcome         |-> OutcomeLabel(calculateWinner(sq).winner),
    totalMoves      |-> Len(hist) - 1,
    finalBoardState |-> sq,
    moves           |-> SubSeq(hist, 1, Len(hist) - 1) ]

\* the GameRecord built by the result effect (finishedAt left out: time is
\* abstracted; the id is unique per record)
ResultData(sq, hist) ==
  [ id              |-> Len(recordLog) + 1,
    outcome         |-> OutcomeLabel(calculateWinner(sq).winner),
    totalMoves      |-> Len(hist),
    finalBoardState |-> sq,
    moves           |-> hist ]

\* RecordsGame with a guard on the history length that only full games pass
RecordsGame_FullGamesOnly(sq, hist) == IsTerminal(sq) /\ Len(hist) >= 9

\* whether the result effect, run for board sq and history hist, records
RecordsGame(sq, hist) == IsTerminal(sq) /\ Len(hist) > 0

\* BatchUpdater submitting the batch without the record just appended
BatchUpdater_DropsLast(prevBatch, resultData) ==
  LET newBatch == Append(prevBatch, resultData)
  IN  IF Len(newBatch) >= FlushThreshold
      THEN << <<>>, << prevBatch >> >>
      ELSE << newBatch, <<>> >>

\* BatchUpdater flushing only above the threshold
BatchUpdater_FlushLate(prevBatch, resultData) ==
  LET newBatch == Append(prevBatch, resultData)
  IN  IF Len(newBatch) > FlushThreshold
      THEN << <<>>, << newBatch >> >>
      ELSE << newBatch, <<>> >>

\* the updater passed to setGameResultsBatch: <<new batch, batches submitted>>
BatchUpdater(prevBatch, resultData) ==
  LET newBatch == Append(prevBatch, resultData)
  IN  IF Len(newBatch) >= FlushThreshold
      THEN << <<>>, << newBatch >> >>
      ELSE << newBatch, <<>> >>

\* the result / batching effect, run after a render in which squares or
\* moveHistory changed
ResultEffect(sq, hist) ==
  IF RecordsGame(sq, hist)
  THEN LET upd == BatchUpdater(gameResultsBatch, ResultData(sq, hist))
       IN  /\ gameResultsBatch' = upd[1]
           /\ sink' = sink \o upd[2]
           /\ saveOutcome' =
                saveOutcome \o [j \in 1..Len(upd[2]) |-> "pending"]
           /\ recordLog' = Append(recordLog, ResultData(sq, hist))
  ELSE UNCHANGED << gameResultsBatch, sink, saveOutcome, recordLog >>

\* ResetClosure capturing no outcome
ResetClosure_NoOutcome(sq, game) ==
  [ winner |-> Null, isBoardFull |-> FALSE, game |-> game ]

\* ResetClosure taking a full board for a board without winner
ResetClosure_FullIsDraw(sq, game) ==
  [ winner      |-> IF IsBoardFull(sq) THEN Null
                    ELSE calculateWinner(sq).winner,
    isBoardFull |-> IsBoardFull(sq),
    game        |-> game ]

\* the closure of the timeout scheduled by the terminal branch of the main
\* effect; game is history: the terminated game whose render scheduled it
ResetClosure(sq, game) ==
  [ winner      |-> calculateWinner(sq).winner,
    isBoardFull |-> IsBoardFull(sq),
    game        |-> game ]

\* MainEffect with the pause check ahead of the terminal branch and a
\* cleanup that clears the reset timeout as well
MainEffect_PauseFirst(sq, xNext, playing, line, timers, game) ==
  IF ~playing
  THEN winningLine' = line /\ resetTimers' = EmptyBag /\ moveTimer' = <<>>
  ELSE IF IsTerminal(sq)
  THEN /\ winningLine' =
            IF calculateWinner(sq) # NoResult THEN calculateWinner(sq).line
            ELSE line
       /\ resetTimers' = SetToBag({ResetClosure(sq, game)})
       /\ moveTimer' = <<>>
  ELSE /\ winningLine' = line
       /\ resetTimers' = EmptyBag
       /\ moveTimer' = << [squares |-> sq, isXNext |-> xNext] >>

\* the main simulation effect, run after a render in which one of its
\* dependencies changed, with the state of that render: the cleanup of the
\* previous run clears the pending move tick (never a reset timeout), then
\* either a reset timeout or a move tick is scheduled
MainEffect(sq, xNext, playing, line, timers, game) ==
  IF IsTerminal(sq)
  THEN /\ winningLine' =
            IF calculateWinner(sq) # NoResult THEN calculateWinner(sq).line
            ELSE line
       /\ resetTimers' = timers (+) SetToBag({ResetClosure(sq, game)})
       /\ moveTimer' = <<>>
  ELSE /\ winningLine' = line
       /\ resetTimers' = timers
       /\ moveTimer' =
            IF playing THEN << [squares |-> sq, isXNext |-> xNext] >> ELSE <<>>

(* ---------------------------------------------------------------------- *)
(* Actions of the driver                                                   *)
(* ---------------------------------------------------------------------- *)
\* the player the pending move tick moves for: currentPlayer
TickPlayer == IF moveTimer[1].isXNext THEN "X" ELSE "O"

\* The callback of the move tick after findBestMove has returned move.  It
\* works on the squares and isXNext of the render that scheduled it;
\* setMoveHistory takes an updater and so works on the current history.
ApplyMove(move) ==
  /\ LET c == moveTimer[1]
     IN  IF move # -1
         THEN LET newHistory ==
                    Append(moveHistory,
                           [player |-> TickPlayer, position |-> move])
                  newSquares == Place(c.squares, move, TickPlayer)
                  ended      == IF IsTerminal(newSquares) THEN 1 ELSE 0
              IN  /\ moveHistory' = newHistory
                  /\ squares' = newSquares
                  /\ isXNext' = ~c.isXNext
                  /\ gamesTerminated' = gamesTerminated + ended
                  /\ ResultEffect(newSquares, newHistory)
                  /\ MainEffect(newSquares, ~c.isXNext, isPlaying, winningLine,
                                resetTimers, gamesTerminated + ended)
                  /\ UNCHANGED << stats, isPlaying, speed >>
         ELSE /\ moveTimer' = <<>>
              /\ UNCHANGED << squares, isXNext, stats, winningLine,
                              moveHistory, gameResultsBatch, isPlaying, speed,
                              resetTimers, sink, saveOutcome, recordLog,
                              gamesTerminated >>
  /\ UNCHANGED fetchVars
  /\ UNCHANGED harnessVars

\* The callback of the move tick fires and Math.random() returns
\* rnd / RandomScale.
MoveTick(rnd) ==
  /\ moveTimer # <<>>
  /\ ApplyMove(findBestMove(moveTimer[1].squares, TickPlayer, rnd))

\* the moves findBestMove can return to the pending tick
PossibleMoves ==
  { findBestMove(moveTimer[1].squares, TickPlayer, rnd) : rnd \in RandomValues }

\* ResetFire without setIsXNext(true)
ResetFire_KeepsPlayer(t) ==
  /\ BagIn(t, resetTimers)
  /\ stats' =
       [ xWins |-> IF t.winner = "X" THEN stats.xWins + 1 ELSE stats.xWins,
         oWins |-> IF t.winner = "O" THEN stats.oWins + 1 ELSE stats.oWins,
         draws |-> IF t.winner = Null /\ t.isBoardFull
                   THEN stats.draws + 1 ELSE stats.draws ]
  /\ squares' = EmptyBoard
  /\ moveHistory' = <<>>
  /\ isXNext' = isXNext
  /\ ResultEffect(EmptyBoard, <<>>)
  /\ MainEffect(EmptyBoard, isXNext, isPlaying, <<>>,
                resetTimers (-) SetToBag({t}), gamesTerminated)
  /\ UNCHANGED << isPlaying, speed, gamesTerminated >>
  /\ UNCHANGED fetchVars
  /\ UNCHANGED harnessVars

\* The callback of a terminal-reset timeout fires.  winner and isBoardFull
\* are those of the render that scheduled it.
ResetFire(t) ==
  /\ BagIn(t, resetTimers)
  /\ stats' =
       [ xWins |-> IF t.winner = "X" THEN stats.xWins + 1 ELSE stats.xWins,
         oWins |-> IF t.winner = "O" THEN stats.oWins + 1 ELSE stats.oWins,
         draws |-> IF t.winner = Null /\ t.isBoardFull
                   THEN stats.draws + 1 ELSE stats.draws ]
  /\ squares' = EmptyBoard
  /\ moveHistory' = <<>>
  /\ isXNext' = TRUE
  /\ ResultEffect(EmptyBoard, <<>>)
  /\ MainEffect(EmptyBoard, TRUE, isPlaying, <<>>,
                resetTimers (-) SetToBag({t}), gamesTerminated)
  /\ UNCHANGED << isPlaying, speed, gamesTerminated >>
  /\ UNCHANGED fetchVars
  /\ UNCHANGED harnessVars

\* a user action that re-runs the main effect on a terminal board schedules
\* one more reset timeout; the model lets at most MaxPendingResets be pending
RoomForReset ==
  IsTerminal(squares) => BagCardinality(resetTimers) < MaxPendingResets

\* onClick of the Pause / Play button
TogglePause ==
  /\ RoomForReset
  /\ isPlaying' = ~isPlaying
  /\ MainEffect(squares, isXNext, ~isPlaying, winningLine, resetTimers,
                gamesTerminated)
  /\ UNCHANGED << squares, isXNext, stats, moveHistory, gameResultsBatch,
                  speed, sink, saveOutcome, recordLog, gamesTerminated >>
  /\ UNCHANGED fetchVars
  /\ UNCHANGED harnessVars

\* onChange of the speed slider
SetSpeed(v) ==
  /\ RoomForReset
  /\ v # speed
  /\ speed' = v
  /\ MainEffect(squares, isXNext, isPlaying, winningLine, resetTimers,
                gamesTerminated)
  /\ UNCHANGED << squares, isXNext, stats, moveHistory, gameResultsBatch,
                  isPlaying, sink, saveOutcome, recordLog,
                  gamesTerminated >>
  /\ UNCHANGED fetchVars
  /\ UNCHANGED harnessVars

\* The driver run: Math.random() returns 0 at every call, the user toggles
\* pause and moves the speed slider at any time, any pending timer fires next.
Tick == gamesTerminated < MaxGames /\ MoveTick(0)
Reset == \E t \in BagToSet(resetTimers) : ResetFire(t)
Speed == \E v \in SpeedValues : SetSpeed(v)

Next == Tick \/ Reset \/ TogglePause \/ Speed

Spec == Init /\ [][Next]_vars

\* The same run under the scheduling of the browser's timers: a timeout that
\* is pending and never cleared fires.  Reset timeouts are never cleared, so
\* Reset stays enabled until one fires.  (Nothing obliges the user to click.)
SpecLive == Init /\ [][Next]_vars /\ WF_vars(Reset)

(* ---------------------------------------------------------------------- *)
(* A longer run without user input: Math.random() returns 0 at every call  *)
(* ---------------------------------------------------------------------- *)
BatchTick == gamesTerminated < MaxBatchGames /\ MoveTick(0)

NextBatch == BatchTick \/ Reset

SpecBatch == Init /\ [][NextBatch]_vars

(* ---------------------------------------------------------------------- *)
(* One game with every outcome of the random fallback, and its reset       *)
(* ---------------------------------------------------------------------- *)
\* (\E rnd \in RandomValues : MoveTick(rnd), one successor per move)
GameTick ==
  /\ gamesTerminated < 1
  /\ moveTimer # <<>>
  /\ \E move \in PossibleMoves : ApplyMove(move)

NextGame == GameTick \/ Reset

SpecGame == Init /\ [][NextGame]_vars

(* ---------------------------------------------------------------------- *)
(* The network: the promises of saveThingsToDatabase and of fetchHistory    *)
(* ---------------------------------------------------------------------- *)
\* fetch() rejects (transport error), or resolves with a response whose
\* status is a success (ok) or not
FetchOutcomes == {"rejected", "ok", "notOk"}

\* a value that is null, and the value v that is not: <<>> and <<v>>
NoData == <<>>
Data(v) == << v >>

\* the game lists the history endpoint may send: sequences of distinct ids
HistoryLists ==
  UNION { { l \in [1..n -> 1..MaxHistoryGames] :
              \A i, j \in 1..n : i # j => l[i] # l[j] } :
          n \in 0..MaxHistoryGames }

\* what fetch() can come back with for the history endpoint; the body may
\* also be JSON null
LoadResponses ==
  [outcome : FetchOutcomes,
   body : {NoData} \cup {Data(l) : l \in HistoryLists}]

\* what fetch() can come back with for the save endpoint
SaveResponses == [outcome : FetchOutcomes]

\* loadThingsFromDatabase returning the body whatever the status
loadThingsFromDatabase_AnyStatus(response) ==
  IF response.outcome = "rejected" THEN NoData ELSE response.body

\* the value loadThingsFromDatabase resolves with
loadThingsFromDatabase(response) ==
  IF response.outcome = "rejected" THEN NoData
  ELSE IF response.outcome # "ok" THEN NoData
  ELSE response.body

\* how the promise of saveThingsToDatabase settles: with the parsed reply,
\* or with undefined after the error was logged
saveThingsToDatabase(response) ==
  IF response.outcome = "rejected" THEN "failed"
  ELSE IF response.outcome # "ok" THEN "failed"
  ELSE "saved"

\* SaveSettles putting the batch back into the buffer when the call failed
SaveSettles_Rebuffers(call, response) ==
  /\ call \in 1..Len(sink)
  /\ saveOutcome[call] = "pending"
  /\ saveOutcome' =
       [saveOutcome EXCEPT ![call] = saveThingsToDatabase(response)]
  /\ gameResultsBatch' =
       IF saveThingsToDatabase(response) = "failed"
       THEN sink[call] \o gameResultsBatch ELSE gameResultsBatch
  /\ UNCHANGED << squares, isXNext, stats, winningLine, moveHistory,
                  isPlaying, speed, moveTimer, resetTimers,
                  sink, recordLog, gamesTerminated >>
  /\ UNCHANGED fetchVars
  /\ UNCHANGED harnessVars

\* The promise of a call of saveThingsToDatabase settles.  The updater of
\* setGameResultsBatch dropped the promise, so nothing of App runs.
SaveSettles(call, response) ==
  /\ call \in 1..Len(sink)
  /\ saveOutcome[call] = "pending"
  /\ saveOutcome' =
       [saveOutcome EXCEPT ![call] = saveThingsToDatabase(response)]
  /\ UNCHANGED << squares, isXNext, stats, winningLine, moveHistory,
                  gameResultsBatch, isPlaying, speed, moveTimer, resetTimers,
                  sink, recordLog, gamesTerminated >>
  /\ UNCHANGED fetchVars
  /\ UNCHANGED harnessVars

\* fetchHistory is called and awaits loadThingsFromDatabase
fetchHistory ==
  /\ fetchesInFlight < MaxFetchesInFlight
  /\ fetchesInFlight' = fetchesInFlight + 1
  /\ UNCHANGED << squares, isXNext, stats, winningLine, moveHistory,
                  gameResultsBatch, isPlaying, speed, moveTimer, resetTimers,
                  sink, saveOutcome, gameHistory, recordLog, gamesTerminated >>
  /\ UNCHANGED harnessVars

\* the callback of setInterval(fetchHistory, 30000)
PollFetch == fetchHistory

\* onClick of the refresh button of the history panel
ManualFetch == fetchHistory

\* A call of fetchHistory resumes after its await.  gameHistory is not a
\* dependency of either effect, so the render runs no effect.
FetchResolves(response) ==
  /\ fetchesInFlight > 0
  /\ fetchesInFlight' = fetchesInFlight - 1
  /\ LET historyData == loadThingsFromDatabase(response)
     IN  gameHistory' =
           IF historyData # NoData THEN historyData[1] ELSE gameHistory
  /\ UNCHANGED << squares, isXNext, stats, winningLine, moveHistory,
                  gameResultsBatch, isPlaying, speed, moveTimer, resetTimers,
                  sink, saveOutcome, recordLog, gamesTerminated >>
  /\ UNCHANGED harnessVars

\* The long run without user input, Math.random() returning 0, together
\* with the sink: every submit call settles in any of its ways at any time,
\* or never.
SaveSettlesAny ==
  \E call \in 1..Len(sink) : \E response \in SaveResponses :
    SaveSettles(call, response)

NextSink == BatchTick \/ Reset \/ SaveSettlesAny

SpecSink == Init /\ [][NextSink]_vars

\* The driver run without clicks on Pause or the slider, Math.random()
\* returning 0, together with the history panel: the poll and the refresh
\* button start a fetch at any time, and every fetch resumes with any
\* response at any time, or never.
FetchResolvesAny == \E response \in LoadResponses : FetchResolves(response)

NextFetch == Tick \/ Reset \/ PollFetch \/ ManualFetch \/ FetchResolvesAny

SpecFetch == Init /\ [][NextFetch]_vars

(* ---------------------------------------------------------------------- *)
(* The pure functions applied to every board                               *)
(* ---------------------------------------------------------------------- *)
SelectorInit ==
  /\ DriverInit
  /\ argSquares \in AllBoards
  /\ argPlayer \in Markers
  /\ retOutcome = <<>>
  /\ retMove = <<>>

Evaluate ==
  /\ retOutcome = <<>>
  /\ retOutcome' = << calculateWinner(argSquares) >>
  /\ UNCHANGED << driverVars, argSquares, argPlayer, retMove >>

Select(rnd) ==
  /\ retOutcome # <<>>
  /\ retMove = <<>>
  /\ retMove' = << findBestMove(argSquares, argPlayer, rnd) >>
  /\ UNCHANGED << driverVars, argSquares, argPlayer, retOutcome >>

SelectAny == \E rnd \in RandomValues : Select(rnd)

NextSelector == Evaluate \/ SelectAny

SpecSelector == SelectorInit /\ [][NextSelector]_vars

(* ---------------------------------------------------------------------- *)
(* Vocabulary of the properties: the geometry of the board                 *)
(* ---------------------------------------------------------------------- *)
\* the 3 rows, 3 columns and 2 diagonals, as sets of cells
GeoLines ==
  {{3 * r, 3 * r + 1, 3 * r + 2} : r \in 0..2}
    \cup {{c, c + 3, c + 6} : c \in 0..2}
    \cup {{0, 4, 8}, {2, 4, 6}}

\* the lines of board b whose three cells hold the same marker
CompletedLinesOf(b) ==
  {L \in GeoLines : \E m \in Markers : \A i \in L : b[i] = m}

\* the empty cells of b that complete a line of p's markers: the other two
\* cells of some line through the cell hold p
CompletingCells(b, p) ==
  {i \in Cells :
     /\ b[i] = Null
     /\ \E L \in GeoLines : i \in L /\ \A j \in L \ {i} : b[j] = p}

EmptyCells(b) == {i \in Cells : b[i] = Null}
MarkedCells(b) == Cells \ EmptyCells(b)
Lowest(S) == CHOOSE i \in S : \A j \in S : i <= j
Highest(S) == CHOOSE i \in S : \A j \in S : i >= j
CellsOf(line) == {line[k] : k \in 1..Len(line)}

\* the boards of the two examples of the specification
BoardOf(cells) == [i \in Cells |-> cells[i + 1]]
WinNowExample ==
  BoardOf(<<"X", "X", Null, "O", "O", Null, Null, Null, Null>>)
BlockExample ==
  BoardOf(<<"X", Null, Null, "O", "O", Null, Null, Null, Null>>)

\* a board is over when a line is completed or no cell is empty
GameOver(b) == CompletedLinesOf(b) # {} \/ EmptyCells(b) = {}

ActivePlayer == IF isXNext THEN "X" ELSE "O"

(* ---------------------------------------------------------------------- *)
(* C1  One stats increment per terminated game                             *)
(* ---------------------------------------------------------------------- *)
\* the games that have terminated and been reset, as positions of recordLog
GamesReset ==
  1..(gamesTerminated - (IF GameOver(squares) THEN 1 ELSE 0))

GamesResetWith(label) ==
  Cardinality({k \in GamesReset : k <= Len(recordLog)
                                  /\ recordLog[k].outcome = label})

\* C1: every game that terminated and was reset has incremented exactly one
\* counter once, the winner's or the draw counter: each counter equals the
\* number of such games with that outcome, and their sum the number of such
\* games, whatever the interleaving of ticks, resets and user input.
C1_AsStated ==
  /\ stats.xWins = GamesResetWith("X Wins")
  /\ stats.oWins = GamesResetWith("O Wins")
  /\ stats.draws = GamesResetWith("Draw")
  /\ stats.xWins + stats.oWins + stats.draws = Cardinality(GamesReset)

(* ---------------------------------------------------------------------- *)
(* C2  No callback fires against newer state                               *)
(* ---------------------------------------------------------------------- *)
\* C2: a move tick only fires against the board and player it was scheduled
\* for, and a reset timeout only fires against the terminated game whose
\* render scheduled it, never against a later board.
C2_AsStated ==
  [][ /\ (\E rnd \in RandomValues : MoveTick(rnd)) =>
           /\ moveTimer[1].squares = squares
           /\ moveTimer[1].isXNext = isXNext
      /\ \A t \in BagToSet(resetTimers) :
           ResetFire(t) => (GameOver(squares) /\ t.game = gamesTerminated)
    ]_vars

(* ---------------------------------------------------------------------- *)
(* C3  Full-game termination                                               *)
(* ---------------------------------------------------------------------- *)
\* C3: in a game played from the empty board by findBestMove for X and O in
\* turn, whatever the random fallback draws: every applied move marks one
\* more cell, so at most 9 moves are made and after 9 the board is full; X
\* moves at even and O at odd positions; and as long as the game is not
\* over the next tick is pending on the current board.  (A tick in which
\* findBestMove returns -1 applies no move and leaves no tick pending on a
\* board that is not over; a tick that returns a marked cell adds a move
\* without adding a mark.)
C3_FullGame ==
  /\ Len(moveHistory) <= 9
  /\ Cardinality(MarkedCells(squares)) = Len(moveHistory)
  /\ isXNext <=> (Len(moveHistory) % 2 = 0)
  /\ Len(moveHistory) = 9 => GameOver(squares)
  /\ ~GameOver(squares) =>
       moveTimer = << [squares |-> squares, isXNext |-> isXNext] >>
  /\ GameOver(squares) => moveTimer = <<>>

\* a game has ended in a draw at the ninth move
C3_Witness ==
  /\ Len(moveHistory) = 9
  /\ EmptyCells(squares) = {}
  /\ CompletedLinesOf(squares) = {}
  /\ moveTimer = <<>>

(* ---------------------------------------------------------------------- *)
(* C4  Batch flush                                                         *)
(* ---------------------------------------------------------------------- *)
\* C4: the sink has received one batch per FlushThreshold terminated games;
\* the j-th batch holds exactly the records of games 10(j-1)+1 .. 10j in
\* completion order; the buffer holds exactly the records of the games since
\* the last flush, unchanged and in order (so it is empty right after a
\* flush and nothing is submitted in between).
C4_BatchFlush ==
  /\ Len(recordLog) = gamesTerminated
  /\ Len(sink) = gamesTerminated \div FlushThreshold
  /\ \A j \in 1..Len(sink) :
       sink[j] = SubSeq(recordLog, FlushThreshold * (j - 1) + 1,
                        FlushThreshold * j)
  /\ gameResultsBatch =
       SubSeq(recordLog, FlushThreshold * Len(sink) + 1, Len(recordLog))

\* the twentieth game has just been flushed as the second batch
C4_Witness ==
  /\ gamesTerminated = 2 * FlushThreshold
  /\ Len(sink) = 2
  /\ sink[2][FlushThreshold].id = 2 * FlushThreshold
  /\ gameResultsBatch = <<>>

(* ---------------------------------------------------------------------- *)
(* C5  Buffer length below the threshold                                   *)
(* ---------------------------------------------------------------------- *)
\* C5: the buffer length is always in 0 .. FlushThreshold - 1, and the step
\* that creates a record while the buffer holds FlushThreshold - 1 records
\* empties the buffer and hands those records plus the new one to the sink.
C5_BufferBelowThreshold ==
  /\ [](Len(gameResultsBatch) \in 0..(FlushThreshold - 1))
  /\ [][ ( /\ Len(gameResultsBatch) = FlushThreshold - 1
           /\ recordLog' # recordLog ) =>
         ( /\ gameResultsBatch' = <<>>
           /\ sink' = Append(sink, Append(gameResultsBatch,
                                          recordLog'[Len(recordLog')])) )
       ]_vars

\* the tenth record has just emptied the buffer
C5_Witness ==
  /\ Len(recordLog) = FlushThreshold
  /\ gameResultsBatch = <<>>
  /\ Len(sink) = 1
  /\ Len(sink[1]) = FlushThreshold

(* ---------------------------------------------------------------------- *)
(* C6  Outcome Evaluator                                                   *)
(* ---------------------------------------------------------------------- *)
\* C6: for every board with exactly one completed line, calculateWinner
\* returns the marker of that line together with that line; for every board
\* with no completed line it returns none.
C6_Evaluator ==
  retOutcome # <<>> =>
    LET done == CompletedLinesOf(argSquares)
        out  == retOutcome[1]
    IN  /\ Cardinality(done) = 1 =>
             \E L \in done :
               /\ out.winner \in Markers
               /\ \A i \in L : argSquares[i] = out.winner
               /\ Len(out.line) = 3
               /\ CellsOf(out.line) = L
        /\ done = {} => out = NoResult

\* calculateWinner has returned O with its line on a board whose only
\* completed line is the right column
C6_Witness ==
  /\ retOutcome # <<>>
  /\ CompletedLinesOf(argSquares) = {{2, 5, 8}}
  /\ retOutcome[1] = [winner |-> "O", line |-> <<2, 5, 8>>]

(* ---------------------------------------------------------------------- *)
(* C7  Win-now tier                                                        *)
(* ---------------------------------------------------------------------- *)
\* C7 as stated: for every board and player such that at least one empty
\* cell would complete a line of the player's own markers, findBestMove
\* returns the lowest-index such cell.
C7_AsStated ==
  (retMove # <<>> /\ CompletingCells(argSquares, argPlayer) # {}) =>
    retMove[1] = Lowest(CompletingCells(argSquares, argPlayer))

\* C7 amended: for every board on which no line is completed yet and every
\* player such that at least one empty cell would complete a line of the
\* player's own markers, findBestMove returns the lowest-index such cell,
\* also when the opponent has a line to block.
C7_WinNow ==
  ( /\ retMove # <<>>
    /\ CompletedLinesOf(argSquares) = {}
    /\ CompletingCells(argSquares, argPlayer) # {} ) =>
    retMove[1] = Lowest(CompletingCells(argSquares, argPlayer))

\* the example of the specification: X can win at 2 and could block at 5
C7_Witness ==
  /\ argSquares = WinNowExample
  /\ argPlayer = "X"
  /\ CompletingCells(argSquares, "O") = {5}
  /\ retMove = <<2>>

(* ---------------------------------------------------------------------- *)
(* C8  Block tier                                                          *)
(* ---------------------------------------------------------------------- *)
\* C8 as stated: for every board and player such that no empty cell gives
\* the player an immediate win but at least one empty cell would complete a
\* line for the opponent, findBestMove returns the lowest-index empty cell
\* that completes an opponent line.
C8_AsStated ==
  ( /\ retMove # <<>>
    /\ CompletingCells(argSquares, argPlayer) = {}
    /\ CompletingCells(argSquares, Opponent(argPlayer)) # {} ) =>
    retMove[1] = Lowest(CompletingCells(argSquares, Opponent(argPlayer)))

\* C8 amended: the same for every board on which no line is completed yet.
C8_Block ==
  ( /\ retMove # <<>>
    /\ CompletedLinesOf(argSquares) = {}
    /\ CompletingCells(argSquares, argPlayer) = {}
    /\ CompletingCells(argSquares, Opponent(argPlayer)) # {} ) =>
    retMove[1] = Lowest(CompletingCells(argSquares, Opponent(argPlayer)))

\* the example of the specification: X cannot win and blocks O at 5
C8_Witness ==
  /\ argSquares = BlockExample
  /\ argPlayer = "X"
  /\ CompletingCells(argSquares, "X") = {}
  /\ retMove = <<5>>

(* ---------------------------------------------------------------------- *)
(* C9  Random fallback                                                     *)
(* ---------------------------------------------------------------------- *)
\* a cell is immediately winning for q when the Outcome Evaluator reports q
\* as the winner of the board with q placed on that empty cell
ImmediatelyWinning(b, q) ==
  {i \in EmptyCells(b) : calculateWinner(Place(b, i, q)).winner = q}

FallbackCase(b) ==
  /\ EmptyCells(b) # {}
  /\ ImmediatelyWinning(b, "X") = {}
  /\ ImmediatelyWinning(b, "O") = {}

\* C9: for every non-full board on which neither player has an immediately
\* winning cell, the value findBestMove returned is an empty cell of the
\* board, and the values it can return over all outcomes of the random
\* choice are exactly the empty cells.
C9_Fallback ==
  FallbackCase(argSquares) =>
    /\ retMove # <<>> => retMove[1] \in EmptyCells(argSquares)
    /\ {findBestMove(argSquares, argPlayer, rnd) : rnd \in RandomValues}
         = EmptyCells(argSquares)

\* the fallback has returned the highest of several empty cells
C9_Witness ==
  /\ FallbackCase(argSquares)
  /\ Cardinality(EmptyCells(argSquares)) = 7
  /\ retMove # <<>>
  /\ retMove[1] = Highest(EmptyCells(argSquares))

(* ---------------------------------------------------------------------- *)
(* C10  Pause gates moves                                                  *)
(* ---------------------------------------------------------------------- *)
\* C10: while isPlaying is false and the game is in progress, the board, the
\* move history and the active player stay unchanged until play is resumed.
C10_AsStated ==
  [][ (~isPlaying /\ ~isPlaying' /\ ~GameOver(squares)) =>
        UNCHANGED << squares, moveHistory, isXNext >> ]_vars

(* ---------------------------------------------------------------------- *)
(* C11  A terminal board is always reset, paused or not                    *)
(* ---------------------------------------------------------------------- *)
ResetState ==
  /\ squares = EmptyBoard
  /\ moveHistory = <<>>
  /\ isXNext

\* C11: whenever the board is terminal (completed line or full) the driver
\* eventually is back on the empty board with X to move; a reset timeout is
\* pending on every terminal board, and this also holds while isPlaying is
\* false.
C11_TerminalResets ==
  /\ [](GameOver(squares) => resetTimers # EmptyBag)
  /\ GameOver(squares) ~> ResetState
  /\ (GameOver(squares) /\ ~isPlaying) ~> ResetState

\* the user has paused during the terminal delay: the driver is paused on a
\* terminal board and the reset is pending
C11_Witness ==
  /\ GameOver(squares)
  /\ ~isPlaying
  /\ moveTimer = <<>>
  /\ resetTimers # EmptyBag

(* ---------------------------------------------------------------------- *)
(* C12  Board monotonicity                                                 *)
(* ---------------------------------------------------------------------- *)
\* the cells whose value differs between the two states of a step
ChangedCells == {i \in Cells : squares'[i] # squares[i]}

\* a step that applies a move (the history grows by one) changes exactly one
\* cell, from empty to the marker of the active player
MoveMarksOneCell ==
  Len(moveHistory') = Len(moveHistory) + 1 =>
    \E i \in Cells :
      /\ ChangedCells = {i}
      /\ squares[i] = Null
      /\ squares'[i] = ActivePlayer

\* a step that changes a marked cell clears all nine cells
MarkedCellsOnlyCleared ==
  (\E i \in ChangedCells : squares[i] # Null) => squares' = EmptyBoard

\* C12: every applied move changes exactly one cell, from empty to the
\* active player's marker, and leaves the other eight unchanged; a marked
\* cell changes only in a step that clears all nine cells; and a reset step
\* is only taken from a terminal board.
C12_AsStated ==
  [][ /\ MoveMarksOneCell
      /\ MarkedCellsOnlyCleared
      /\ Reset => GameOver(squares) ]_vars

\* the first two parts of C12 alone
C12_MovesAndClears == [][MoveMarksOneCell /\ MarkedCellsOnlyCleared]_vars

(* ---------------------------------------------------------------------- *)
(* C13  Terminal classification                                            *)
(* ---------------------------------------------------------------------- *)
\* the driver treats the board as terminal: it has scheduled the reset and
\* no move tick
TreatedAsTerminal == resetTimers # EmptyBag /\ moveTimer = <<>>

\* the counters after one game whose final board is b
CountersFor(b) ==
  LET w == calculateWinner(b).winner
  IN  [ xWins |-> IF w = "X" THEN 1 ELSE 0,
        oWins |-> IF w = "O" THEN 1 ELSE 0,
        draws |-> IF w = Null /\ EmptyCells(b) = {} THEN 1 ELSE 0 ]

\* C13: in a game played from the empty board, whatever the random fallback
\* draws: the driver treats the board as terminal exactly when calculateWinner
\* reports a winner or all nine cells are filled; the record of the game is
\* labelled 'Draw' exactly when its board is full and calculateWinner reports
\* none, and '<m> Wins' exactly when calculateWinner reports m; and once the
\* game is reset exactly one counter has been incremented: the draw counter
\* exactly when the board was full with no winner, the winner's counter
\* otherwise, also when the winning move was the ninth.
C13_Classification ==
  /\ TreatedAsTerminal <=>
       (calculateWinner(squares).winner # Null \/ EmptyCells(squares) = {})
  /\ \A k \in 1..Len(recordLog) :
       LET b == recordLog[k].finalBoardState
           w == calculateWinner(b).winner
       IN  /\ recordLog[k].outcome = "Draw" <=> (EmptyCells(b) = {} /\ w = Null)
           /\ recordLog[k].outcome = "X Wins" <=> w = "X"
           /\ recordLog[k].outcome = "O Wins" <=> w = "O"
           /\ recordLog[k].outcome \in {"Draw", "X Wins", "O Wins"}
  /\ (gamesTerminated = 1 /\ ~TreatedAsTerminal) =>
       /\ Len(recordLog) = 1
       /\ stats = CountersFor(recordLog[1].finalBoardState)
       /\ stats.xWins + stats.oWins + stats.draws = 1

\* X completed a line with the ninth move, and the game has been reset and
\* counted as a win for X
C13_Witness ==
  /\ gamesTerminated = 1
  /\ squares = EmptyBoard
  /\ Len(recordLog) = 1
  /\ recordLog[1].totalMoves = 9
  /\ EmptyCells(recordLog[1].finalBoardState) = {}
  /\ recordLog[1].outcome = "X Wins"
  /\ stats = [xWins |-> 1, oWins |-> 0, draws |-> 0]

(* ---------------------------------------------------------------------- *)
(* C14  Sink independence                                                  *)
(* ---------------------------------------------------------------------- *)
\* the state of the simulation
simulationVars ==
  << squares, isXNext, stats, winningLine, moveHistory, gameResultsBatch,
     isPlaying, speed, moveTimer, resetTimers, sink, recordLog,
     gamesTerminated >>

\* the ids of the records handed to the sink, one element per record handed
SubmittedRecords ==
  {<<j, k>> : j \in 1..Len(sink), k \in 1..FlushThreshold}

\* C14: whatever way the submit calls settle (saved, failed, or still
\* pending): one call is made per flushed batch; the buffer holds exactly
\* the records created since the last flush, so no flushed record is put
\* back; no record is handed to the sink twice; the step that flushes leaves
\* the buffer empty; the step in which a call settles changes nothing of the
\* simulation; and every step that changes the simulation is a move tick or
\* a reset of the driver, the same as with a sink that always succeeds.
C14_SinkIndependence ==
  /\ [](/\ Len(saveOutcome) = Len(sink)
        /\ \A j \in 1..Len(saveOutcome) :
             saveOutcome[j] \in {"pending", "saved", "failed"}
        /\ gameResultsBatch =
             SubSeq(recordLog, FlushThreshold * Len(sink) + 1, Len(recordLog))
        /\ \A p, q \in SubmittedRecords :
             /\ Len(sink[p[1]]) = FlushThreshold
             /\ sink[p[1]][p[2]].id = sink[q[1]][q[2]].id => p = q
             /\ \A i \in 1..Len(gameResultsBatch) :
                  gameResultsBatch[i].id # sink[p[1]][p[2]].id)
  /\ [][ /\ Len(sink') > Len(sink) => gameResultsBatch' = <<>>
         /\ (\E j \in 1..Len(saveOutcome) : saveOutcome'[j] # saveOutcome[j])
              => UNCHANGED simulationVars
         /\ (BatchTick \/ Reset) \/ UNCHANGED simulationVars ]_vars

\* the submission of the first batch has failed, the second one has not
\* settled, and the simulation has gone on to buffer the record of game 21
C14_Witness ==
  /\ saveOutcome = <<"failed", "pending">>
  /\ Len(sink) = 2
  /\ gamesTerminated = 2 * FlushThreshold + 1
  /\ Len(gameResultsBatch) = 1
  /\ gameResultsBatch[1].id = 2 * FlushThreshold + 1

(* ---------------------------------------------------------------------- *)
(* C15  Fetch history                                                      *)
(* ---------------------------------------------------------------------- *)
\* C15: when a call of fetchHistory resumes with the response of the server:
\* a successful response carrying a list makes that list the displayed
\* history, whatever was displayed before; a rejected fetch or a non-success
\* status leaves the displayed history as it was; and neither that step nor
\* the start of a fetch (poll or button) changes anything of the simulation,
\* in particular the board, the stats and the batch buffer.
C15_FetchHistory ==
  [][ /\ \A response \in LoadResponses :
           FetchResolves(response) =>
             /\ (response.outcome = "ok" /\ response.body # NoData) =>
                  gameHistory' = response.body[1]
             /\ response.outcome \in {"rejected", "notOk"} =>
                  gameHistory' = gameHistory
      /\ (fetchesInFlight' # fetchesInFlight \/ gameHistory' # gameHistory) =>
           UNCHANGED simulationVars ]_vars

\* after some games were recorded and counted, a fetch has made a one-game
\* list the displayed history while another fetch is in flight
C15_Witness ==
  /\ gameHistory = <<2>>
  /\ fetchesInFlight = 1
  /\ Len(gameResultsBatch) > 0
  /\ stats.xWins + stats.oWins + stats.draws > 0

(* ---------------------------------------------------------------------- *)
(* C16  When a game is counted                                             *)
(* ---------------------------------------------------------------------- *)
RecordsWith(label) ==
  Cardinality({k \in 1..Len(recordLog) : recordLog[k].outcome = label})

GamesCounted == stats.xWins + stats.oWins + stats.draws

\* C16 as stated: in every reachable state the counters already include
\* every game whose GameRecord has been created (buffered or flushed).
C16_AsStated ==
  /\ stats.xWins >= RecordsWith("X Wins")
  /\ stats.oWins >= RecordsWith("O Wins")
  /\ stats.draws >= RecordsWith("Draw")

\* C16 amended: the step that makes the board terminal creates the
\* GameRecord and leaves the counters unchanged; the counters change only in
\* the step of a reset timeout, at the end of the terminal delay, and that
\* step increments exactly one counter by one.
C16_CountedAtReset ==
  [][ /\ recordLog' # recordLog =>
           (GameOver(squares') /\ stats' = stats)
      /\ stats' # stats => (squares' = EmptyBoard /\ moveHistory' = <<>>)
      /\ Reset =>
           /\ stats'.xWins + stats'.oWins + stats'.draws = GamesCounted + 1
           /\ stats'.xWins >= stats.xWins
           /\ stats'.oWins >= stats.oWins
           /\ stats'.draws >= stats.draws ]_vars

\* the terminal delay of the first game: its record is in the buffer and no
\* counter has been incremented yet
C16_Witness ==
  /\ GameOver(squares)
  /\ resetTimers # EmptyBag
  /\ Len(recordLog) = 1
  /\ gameResultsBatch = recordLog
  /\ recordLog[1].finalBoardState = squares
  /\ GamesCounted = 0

(* ---------------------------------------------------------------------- *)
(* C17  Exactly one GameRecord per terminated game                         *)
(* ---------------------------------------------------------------------- *)
\* the step makes the board terminal
BecomesTerminal == ~GameOver(squares) /\ GameOver(squares')

\* the step creates exactly one record and hands it to the buffer, or with
\* the buffer to the sink
CreatesOneRecord ==
  /\ Len(recordLog') = Len(recordLog) + 1
  /\ SubSeq(recordLog', 1, Len(recordLog)) = recordLog
  /\ LET r == recordLog'[Len(recordLog')]
     IN  \/ gameResultsBatch' = Append(gameResultsBatch, r) /\ sink' = sink
         \/ /\ gameResultsBatch' = <<>>
            /\ sink' = Append(sink, Append(gameResultsBatch, r))

\* C17: whatever the interleaving of ticks, resets, pause toggles and speed
\* changes: a terminal board has a non-empty move history; the step that
\* makes the board terminal creates exactly one GameRecord and appends it to
\* the buffer; no other step creates a record or changes the buffer, in
\* particular none while the board stays terminal; so there are as many
\* records as times the board became terminal.
C17_OneRecordPerGame ==
  /\ [](/\ GameOver(squares) => Len(moveHistory) > 0
        /\ Len(recordLog) = gamesTerminated)
  /\ [][ /\ BecomesTerminal => CreatesOneRecord
         /\ ~BecomesTerminal =>
              UNCHANGED << recordLog, gameResultsBatch, sink >> ]_vars

\* the second game has terminated and the user has toggled pause during its
\* terminal delay: two reset timeouts are pending and there are two records
C17_Witness ==
  /\ gamesTerminated = 2
  /\ GameOver(squares)
  /\ ~isPlaying
  /\ BagCardinality(resetTimers) = 2
  /\ Len(recordLog) = 2
  /\ Len(gameResultsBatch) = 2

(* ---------------------------------------------------------------------- *)
(* C18  GameRecord consistency                                             *)
(* ---------------------------------------------------------------------- *)
\* the board after the first n moves of a move list, from the empty board
RECURSIVE Replay(_, _)
Replay(moves, n) ==
  IF n = 0 THEN EmptyBoard
  ELSE [Replay(moves, n - 1) EXCEPT ![moves[n].position] = moves[n].player]

\* C18: for every GameRecord created: the board snapshot is terminal; the
\* move count equals the length of the move list and the number of marked
\* cells of the snapshot; replaying the moves in order from the empty board
\* yields the snapshot; the moves alternate X, O, X, ... starting with X and
\* never target the same cell twice; and the label is '<m> Wins' exactly
\* when calculateWinner reports m on the snapshot, 'Draw' otherwise.
C18_RecordConsistency ==
  \A k \in 1..Len(recordLog) :
    LET r == recordLog[k]
        w == calculateWinner(r.finalBoardState).winner
    IN  /\ GameOver(r.finalBoardState)
        /\ r.totalMoves = Len(r.moves)
        /\ r.totalMoves = Cardinality(MarkedCells(r.finalBoardState))
        /\ Replay(r.moves, Len(r.moves)) = r.finalBoardState
        /\ \A i \in 1..Len(r.moves) :
             /\ r.moves[i].player = (IF i % 2 = 1 THEN "X" ELSE "O")
             /\ r.moves[i].position \in Cells
        /\ \A i, j \in 1..Len(r.moves) :
             r.moves[i].position = r.moves[j].position => i = j
        /\ r.outcome = (IF w = "X" THEN "X Wins"
                        ELSE IF w = "O" THEN "O Wins" ELSE "Draw")

\* the record of a game that O won with the eighth move
C18_Witness ==
  /\ Len(recordLog) = 1
  /\ recordLog[1].outcome = "O Wins"
  /\ recordLog[1].totalMoves = 8
  /\ Len(recordLog[1].moves) = 8
  /\ recordLog[1].moves[8].player = "O"
  /\ gameResultsBatch = recordLog

(* ---------------------------------------------------------------------- *)
(* C19  No move after terminal                                             *)
(* ---------------------------------------------------------------------- *)
\* the markers that have a completed line on board b
LineOwners(b) == {b[Lowest(L)] : L \in CompletedLinesOf(b)}

\* C19: on a board with a completed line or no empty cell no move tick is
\* pending, and the only change such a board undergoes is the clearing of
\* all cells; every completed line runs through the cell of the last move,
\* so the game ended at the first move that completed a line; and no
\* reachable board has a completed line of X and one of O.
C19_NoMoveAfterTerminal ==
  /\ [](/\ GameOver(squares) => moveTimer = <<>>
        /\ \A L \in CompletedLinesOf(squares) :
             /\ Len(moveHistory) > 0
             /\ moveHistory[Len(moveHistory)].position \in L
        /\ Cardinality(LineOwners(squares)) <= 1)
  /\ [][ GameOver(squares) =>
           /\ squares' = squares \/ squares' = EmptyBoard
           /\ moveHistory' = moveHistory \/ moveHistory' = <<>> ]_vars

\* X has completed a line with the seventh move: two cells are empty, no
\* move tick is pending and the reset is
C19_Witness ==
  /\ Len(moveHistory) = 7
  /\ Cardinality(EmptyCells(squares)) = 2
  /\ LineOwners(squares) = {"X"}
  /\ moveTimer = <<>>
  /\ resetTimers # EmptyBag

(* ---------------------------------------------------------------------- *)
(* C20  Reset postcondition                                                *)
(* ---------------------------------------------------------------------- *)
\* C20: in the state right after the step of a reset timeout all nine cells
\* are empty, the move history is empty, X is the active player and the
\* winning line is cleared; and the first move of every game is X's: the
\* first entry of a move history is X's, and the tick pending on an empty
\* board moves for X.
C20_ResetPostcondition ==
  /\ [][ Reset =>
           /\ \A i \in Cells : squares'[i] = Null
           /\ moveHistory' = <<>>
           /\ isXNext' = TRUE
           /\ winningLine' = <<>> ]_vars
  /\ [](/\ Len(moveHistory) > 0 => moveHistory[1].player = "X"
        /\ (EmptyCells(squares) = Cells /\ moveTimer # <<>>) =>
             (isXNext /\ moveTimer[1].isXNext))

\* the first game, won by X, has just been reset: the board is empty, the
\* winning line is cleared and the first tick of the second game is pending
C20_Witness ==
  /\ gamesTerminated = 1
  /\ GamesCounted = 1
  /\ squares = EmptyBoard
  /\ moveHistory = <<>>
  /\ isXNext
  /\ winningLine = <<>>
  /\ resetTimers = EmptyBag
  /\ moveTimer = << [squares |-> EmptyBoard, isXNext |-> TRUE] >>

(* ---------------------------------------------------------------------- *)
(* C21  Completed lines of a reachable board                               *)
(* ---------------------------------------------------------------------- *)
\* C21: on every board reached by a game played from the empty board by
\* findBestMove for X and O in turn, whatever the random fallback draws, at
\* most one of the eight lines is completed; when one is, calculateWinner
\* reports that line with its marker and it is the winning line displayed.
C21_OneCompletedLine ==
  /\ Cardinality(CompletedLinesOf(squares)) <= 1
  /\ \A L \in CompletedLinesOf(squares) :
       /\ CellsOf(calculateWinner(squares).line) = L
       /\ calculateWinner(squares).winner = squares[Lowest(L)]
       /\ winningLine = calculateWinner(squares).line

\* O has won on the anti-diagonal, the only completed line of a board with
\* empty cells left, and that line is displayed
C21_Witness ==
  /\ CompletedLinesOf(squares) = {{2, 4, 6}}
  /\ squares[4] = "O"
  /\ EmptyCells(squares) # {}
  /\ winningLine = <<2, 4, 6>>

(* ---------------------------------------------------------------------- *)
(* C22  Selector determinism outside the fallback                          *)
(* ---------------------------------------------------------------------- *)
\* a win-now or a block cell exists: some empty cell completes a line of
\* the player's or of the opponent's markers
WinOrBlockExists(b) ==
  CompletingCells(b, "X") \cup CompletingCells(b, "O") # {}

\* the results of findBestMove over all values of Math.random()
ResultsOverRandom(b, p) == {findBestMove(b, p, rnd) : rnd \in RandomValues}

\* C22: for every board and player for which a win-now or a block cell
\* exists, the value findBestMove returned, whatever Math.random() gave, is
\* the one value it returns for that board and player; its results for a
\* board and player differ between random sources only when neither a
\* win-now nor a block cell exists.
C22_Determinism ==
  /\ (WinOrBlockExists(argSquares) /\ retMove # <<>>) =>
       ResultsOverRandom(argSquares, argPlayer) = {retMove[1]}
  /\ Cardinality(ResultsOverRandom(argSquares, argPlayer)) > 1 =>
       ~WinOrBlockExists(argSquares)

\* findBestMove has returned O's winning cell on a board with five empty
\* cells, among them a cell that would block X
C22_Witness ==
  /\ argPlayer = "O"
  /\ CompletingCells(argSquares, "O") = {5}
  /\ CompletingCells(argSquares, "X") = {2}
  /\ Cardinality(EmptyCells(argSquares)) = 5
  /\ retMove = <<5>>

(* ---------------------------------------------------------------------- *)
(* C23  No-move sentinel                                                   *)
(* ---------------------------------------------------------------------- *)
\* C23: for every board, either player and every value of Math.random():
\* findBestMove returns -1 exactly when the board has no empty cell; on a
\* board with an empty cell it returns an index in 0..8 that is empty on
\* that board; and the board passed is the same after the call.
C23_NoMoveSentinel ==
  /\ [](retMove # <<>> =>
          /\ retMove[1] = -1 <=> EmptyCells(argSquares) = {}
          /\ EmptyCells(argSquares) # {} =>
               /\ retMove[1] \in 0..8
               /\ argSquares[retMove[1]] = Null)
  /\ [][retMove' # retMove => argSquares' = argSquares]_vars

\* findBestMove has returned -1 on a full board without completed line
C23_Witness ==
  /\ EmptyCells(argSquares) = {}
  /\ CompletedLinesOf(argSquares) = {}
  /\ retMove = <<-1>>

(* ---------------------------------------------------------------------- *)
(* C24  Turn / board consistency                                           *)
(* ---------------------------------------------------------------------- *)
CellsWith(b, m) == {i \in Cells : b[i] = m}

\* C24: in every reachable state, whatever the interleaving of ticks,
\* resets, pause toggles and speed changes: the number of X cells minus the
\* number of O cells is 0 or 1; X is the active player exactly when the two
\* numbers are equal; the move history is as long as the number of marked
\* cells; and its moves are X's at the odd and O's at the even positions
\* (counting from 1), each at a different cell, which holds that marker.
C24_TurnBoardConsistency ==
  LET xs == Cardinality(CellsWith(squares, "X"))
      os == Cardinality(CellsWith(squares, "O"))
  IN  /\ xs - os \in {0, 1}
      /\ isXNext <=> (xs = os)
      /\ Len(moveHistory) = xs + os
      /\ \A i \in 1..Len(moveHistory) :
           /\ moveHistory[i].player = (IF i % 2 = 1 THEN "X" ELSE "O")
           /\ squares[moveHistory[i].position] = moveHistory[i].player
      /\ \A i, j \in 1..Len(moveHistory) :
           moveHistory[i].position = moveHistory[j].position => i = j

\* three moves into the second game, O to move, while a reset timeout
\* scheduled during the first game is still pending
C24_Witness ==
  /\ gamesTerminated = 1
  /\ Len(moveHistory) = 3
  /\ Cardinality(CellsWith(squares, "X")) = 2
  /\ Cardinality(CellsWith(squares, "O")) = 1
  /\ ~isXNext
  /\ resetTimers # EmptyBag

(* ---------------------------------------------------------------------- *)
(* C25  Control frame                                                      *)
(* ---------------------------------------------------------------------- *)
\* the step handles a click on Pause / Play or a change of the slider
ControlStep == isPlaying' # isPlaying \/ speed' # speed

\* the step of a control changes only its own flag and leaves the board, the
\* move history, the active player, the counters and the buffer unchanged
ControlFrame ==
  ControlStep =>
    /\ isPlaying' # isPlaying => speed' = speed
    /\ speed' # speed => isPlaying' = isPlaying
    /\ UNCHANGED << squares, moveHistory, isXNext, stats, gameResultsBatch,
                    recordLog, sink >>

\* C25: the step that handles 'toggle pause/resume' or 'set speed' changes
\* only the pause flag or the speed value, leaves the board, the move
\* history, the active player, the counters and the buffer unchanged in
\* every state, the terminal delay included, and causes no later extra
\* increment, record or reset: it leaves the pending reset timeouts as they
\* are.
C25_AsStated ==
  [][ /\ ControlFrame
      /\ ControlStep => resetTimers' = resetTimers ]_vars

\* the first part of C25 alone
C25_ImmediateFrame == [][ControlFrame]_vars

====
